---- MODULE Spec2Model ----
(***************************************************************************)
(* Model of the Vue radio group of                                         *)
(* packages/@headlessui-vue/src/components/radio-group/radio-group.ts:     *)
(* the RadioGroup controller (options list, bound modelValue, disabled     *)
(* flag, change / registerOption / unregisterOption, the window keydown    *)
(* handler) and the RadioGroupOption nodes (local state, click / focus /   *)
(* blur handlers, the rendered checked flag and tabIndex).                 *)
(*                                                                         *)
(* The environment is the Vue runtime and the DOM: it patches option       *)
(* elements into and out of the container, queues the mounted / unmounted  *)
(* hooks of the patched components, then runs them all in queue order;     *)
(* it moves input focus, updates props, and delivers clicks and key        *)
(* presses once the hook queue is empty.                                   *)
(***************************************************************************)
EXTENDS Integers, Sequences, FiniteSets, TLC

\* ------------------------------------------------------------------ bounds
\* Number of option component instances that can be alive at once.
NumOptions == 3

\* Number of mounted options whose value prop differs from the value they
\* were created with.
MaxUpdatedOptions == 1

Ids == 1..NumOptions

\* Elements below the container in a document the role normalizer walks.
MaxNodes == 4
Nodes == 1..MaxNodes

\* ------------------------------------------------------------------ values
\* props.value / props.modelValue: undefined, a string, or an object.  Two
\* objects are two references (ref) that may hold the same fields (content).
Undefined == [kind |-> "undefined", ref |-> 0, content |-> ""]
StrA == [kind |-> "string", ref |-> 0, content |-> "a"]
Obj1 == [kind |-> "object", ref |-> 1, content |-> "x"]
Obj2 == [kind |-> "object", ref |-> 2, content |-> "x"]

Values == {Undefined, StrA, Obj1, Obj2}

\* The value each option is created with (the value prop of its first render);
\* any other value of a mounted option comes from a later prop update.
InitialValue(i) ==
    CASE i % 4 = 1 -> StrA
      [] i % 4 = 2 -> Obj1
      [] i % 4 = 3 -> Obj2
      [] OTHER -> Undefined

\* Equality of content, whatever the reference (what === is not).
SameContent(a, b) == a.kind = b.kind /\ a.content = b.content

\* Variant of ===: a deep comparison of the fields.
StrictEquals_ByContent(a, b) == a.kind = b.kind /\ a.content = b.content

\* JavaScript ===: objects by reference, primitives by type and content.
StrictEquals(a, b) ==
    IF a.kind = "object" /\ b.kind = "object"
    THEN a.ref = b.ref
    ELSE a.kind = b.kind /\ a.content = b.content


\* ------------------------------------------------------------------- state
\* document.activeElement: an option element (its id), another element
\* inside the group container, or an element outside the container.
InsideContainer == 0
OutsideContainer == -1

OptionState_Empty == 1
OptionState_Active == 2

VARIABLES
    dom,            \* option ids of the elements in the container, document order
    options,        \* api.options: ids of the registered options, list order
    hookQueue,      \* ids whose mounted / unmounted hook is queued, in queue order
    doc,            \* the elements below the container and their role attributes
    flushing,       \* the queued hooks are being run (no patch until the queue is empty)
    modelValue,     \* props.modelValue of the group
    disabled,       \* props.disabled of the group
    optValue,       \* props.value of each option
    state,          \* the local state bit mask of each option
    activeElement,  \* document.activeElement
    emitted,        \* 'update:modelValue' payloads emitted by the last step
    last            \* the last step: what ran, on which option, from which focus

vars == <<dom, options, hookQueue, doc, flushing, modelValue, disabled, optValue, state,
          activeElement, emitted, last>>

\* ----------------------------------------------------------------- helpers
Range(s) == {s[k] : k \in DOMAIN s}

IndexOf(s, x) == IF x \in Range(s) THEN CHOOSE k \in DOMAIN s : s[k] = x ELSE -1

RemoveAt(s, idx) == [k \in 1..(Len(s) - 1) |-> IF k < idx THEN s[k] ELSE s[k + 1]]

InsertAt(s, pos, x) ==
    [k \in 1..(Len(s) + 1) |-> IF k < pos THEN s[k] ELSE IF k = pos THEN x ELSE s[k - 1]]

PermutationsOf(s) ==
    {t \in [DOMAIN s -> Range(s)] : \A x \in Range(s) :
        Cardinality({k \in DOMAIN s : t[k] = x}) = Cardinality({k \in DOMAIN s : s[k] = x})}

Step(kind, target, from, prevented) ==
    [kind |-> kind, target |-> target, from |-> from, prevented |-> prevented,
     error |-> "", order |-> <<>>]

\* A step that ended with an error thrown to the consumer.
Thrown(kind, message) ==
    [kind |-> kind, target |-> 0, from |-> 0, prevented |-> FALSE, error |-> message,
     order |-> <<>>]

\* inject(RadioGroupContext, null): the api of the enclosing group, or null.
NoContext == "null"
GroupContext == "api"

\* Variant of useRadioGroupContext: no test of context === null.
useRadioGroupContext_NoCheck(component, context) ==
    [threw |-> FALSE, message |-> ""]

\* useRadioGroupContext: whether it throws, and the message of the error.
useRadioGroupContext(component, context) ==
    IF context = NoContext
    THEN [threw |-> TRUE,
          message |-> "<" \o component \o " /> is missing a parent <RadioGroup /> component."]
    ELSE [threw |-> FALSE, message |-> ""]

\* ---------------------------------------------------------- GroupController
\* Variant of api.change: the disabled test is missing.
change_IgnoresDisabled(nextValue) ==
    IF StrictEquals(modelValue, nextValue) THEN <<>> ELSE <<nextValue>>

\* Variant of api.change: the equal-value test is missing.
change_IgnoresEqual(nextValue) ==
    IF disabled THEN <<>> ELSE <<nextValue>>

\* api.change: the payloads it emits as 'update:modelValue' (none or one).
change(nextValue) ==
    IF disabled THEN <<>>
    ELSE IF StrictEquals(modelValue, nextValue) THEN <<>>
    ELSE <<nextValue>>

\* orderMap of registerOption: element id -> index among the option elements
\* that querySelectorAll finds in the container.
orderMap == [x \in Range(dom) |-> IndexOf(dom, x) - 1]

\* Array.prototype.sort under (a, z) => orderMap[a.id] - orderMap[z.id] when
\* every id has a rank: the ranks are distinct, so the result is the one
\* arrangement in rank order.
SortByOrderMap(s) ==
    CHOOSE t \in PermutationsOf(s) :
        \A j, k \in DOMAIN t : j < k => orderMap[t[j]] < orderMap[t[k]]

\* Variant of api.registerOption: the sort without the push.
registerOption_SortOnly(id) ==
    IF Range(options) \subseteq DOMAIN orderMap
    THEN options' = SortByOrderMap(options)
    ELSE options' \in PermutationsOf(options)

\* api.registerOption: push, then sort by orderMap.  An id without a rank makes
\* the comparator return NaN: the comparator is then not consistent and the
\* order the sort leaves is implementation-defined (any arrangement).
registerOption(id) ==
    LET pushed == Append(options, id)
    IN  IF Range(pushed) \subseteq DOMAIN orderMap
        THEN options' = SortByOrderMap(pushed)
        ELSE options' \in PermutationsOf(pushed)

\* Variant of api.unregisterOption: the entry stays in the list.
unregisterOption_Keeps(opts, id) == opts

\* Variant of api.unregisterOption: no test of idx === -1, so that
\* splice(-1, 1) takes the last entry away.
unregisterOption_NoGuard(opts, id) ==
    LET idx == IndexOf(opts, id)
    IN  IF idx = -1
        THEN (IF opts = <<>> THEN opts ELSE RemoveAt(opts, Len(opts)))
        ELSE RemoveAt(opts, idx)

\* api.unregisterOption: the list it leaves.
unregisterOption(opts, id) ==
    LET idx == IndexOf(opts, id)
    IN  IF idx = -1 THEN opts ELSE RemoveAt(opts, idx)

\* ------------------------------------------------------------ OptionNode
IsActive(s) == (s \div OptionState_Active) % 2 = 1

\* state.value |= OptionState.Active
handleFocus(s) == IF IsActive(s) THEN s ELSE s + OptionState_Active

\* Variant of handleBlur: the Active bit stays.
handleBlur_KeepsActive(s) == s

\* state.value &= ~OptionState.Active
handleBlur(s) == IF IsActive(s) THEN s - OptionState_Active ELSE s

\* element.focus(): the blur event of the option losing focus and the focus
\* event of the option gaining it, applied to the given option states.
FocusEvents(st, from, to) ==
    IF from = to THEN st
    ELSE [i \in Ids |->
            IF i = to THEN handleFocus(st[i])
            ELSE IF i = from THEN handleBlur(st[i])
            ELSE st[i]]

\* render of RadioGroupOption
firstRadio(i) == Len(options) > 0 /\ options[1] = i

\* Variant of checked: an absent modelValue never counts as equal.
checked_DefinedOnly(i) ==
    ~StrictEquals(modelValue, Undefined) /\ StrictEquals(modelValue, optValue[i])

checked(i) == StrictEquals(modelValue, optValue[i])

tabIndex(i) ==
    IF checked(i) THEN 0
    ELSE IF StrictEquals(modelValue, Undefined) /\ firstRadio(i) THEN 0
    ELSE -1

\* ----------------------------------------------------------- focusIn
\* focusIn(elements, focus) of utils/focus-management over the option
\* elements, every one of which accepts focus: the position in the list of
\* the element that receives focus, or 0 when none does (an empty list, or
\* the end of the list without Focus.WrapAround).
Max(a, b) == IF a > b THEN a ELSE b

focusIn(direction, wrapAround) ==
    LET total == Len(options)
        at == IndexOf(options, activeElement)
        startIndex == Max(0, IF at = -1 THEN -1 ELSE at - 1) + direction
    IN  IF total = 0 THEN 0
        ELSE IF wrapAround THEN ((startIndex + total) % total) + 1
        ELSE IF startIndex < 0 \/ startIndex >= total THEN 0
        ELSE startIndex + 1

\* -------------------------------------------------------------------- Init
\* ------------------------------------------------------- role normalizer
\* The role attribute of an element: absent, 'radio' (an option element),
\* another role the markup declares, or the neutral role 'none'.
NoRole == "absent"
Roles == {NoRole, "radio", "group", "none"}

\* getAttribute('role') / hasAttribute('role')
hasAttribute(role) == role # NoRole

\* Variant of acceptNode: an element with another role is rejected like an
\* option element.
acceptNode_RejectsRole(role) ==
    IF role = "radio" THEN "FILTER_REJECT"
    ELSE IF hasAttribute(role) THEN "FILTER_REJECT"
    ELSE "FILTER_ACCEPT"

\* Variant of acceptNode: an option element is skipped like an element with
\* another role.
acceptNode_SkipsRadio(role) ==
    IF role = "radio" THEN "FILTER_SKIP"
    ELSE IF hasAttribute(role) THEN "FILTER_SKIP"
    ELSE "FILTER_ACCEPT"

\* The filter of the TreeWalker.
acceptNode(role) ==
    IF role = "radio" THEN "FILTER_REJECT"
    ELSE IF hasAttribute(role) THEN "FILTER_SKIP"
    ELSE "FILTER_ACCEPT"

\* while (walker.nextNode()) setAttribute('role', 'none'): the elements below
\* n in document order (children by node number).  A rejected element is
\* passed over with its subtree, a skipped one is passed over and its children
\* are walked, an accepted one is given role 'none' and its children are
\* walked.  parent[k] is the parent of element k, 0 for the container.
RECURSIVE nextNode(_, _, _)
RECURSIVE walkChildren(_, _, _, _)
nextNode(parent, role, n) ==
    LET result == acceptNode(role[n])
    IN  IF result = "FILTER_REJECT" THEN role
        ELSE walkChildren(parent,
                          IF result = "FILTER_ACCEPT"
                          THEN [role EXCEPT ![n] = "none"]
                          ELSE role,
                          n, 1)

walkChildren(parent, role, n, k) ==
    IF k > MaxNodes THEN role
    ELSE IF parent[k] = n
         THEN walkChildren(parent, nextNode(parent, role, k), n, k + 1)
         ELSE walkChildren(parent, role, n, k + 1)

\* The documents of the bounded check: every shape of MaxNodes elements below
\* the container, every role on each, the container rendered or not.
Documents ==
    {[container |-> c, parent |-> p, role |-> r, before |-> r, ran |-> FALSE] :
        c \in BOOLEAN,
        p \in {f \in [Nodes -> 0..MaxNodes] : \A n \in Nodes : f[n] < n},
        r \in [Nodes -> Roles]}

\* The document of the group of the main specification: an element with
\* another role and an option element, each around an element without role.
MainDocument ==
    [container |-> TRUE,
     parent |-> [n \in Nodes |-> IF n % 2 = 1 THEN 0 ELSE n - 1],
     role |-> [n \in Nodes |-> CASE n % 4 = 1 -> "group"
                                 [] n % 4 = 3 -> "radio"
                                 [] OTHER -> NoRole],
     before |-> [n \in Nodes |-> CASE n % 4 = 1 -> "group"
                                   [] n % 4 = 3 -> "radio"
                                   [] OTHER -> NoRole],
     ran |-> FALSE]

\* watchEffect(() => { ... }): the role normalizer.  The effect reads
\* radioGroupRef only, so it runs once for the container it is given.
RoleNormalizer ==
    /\ ~doc.ran
    /\ doc' = IF ~doc.container
              THEN [doc EXCEPT !.before = doc.role, !.ran = TRUE]
              ELSE [doc EXCEPT !.role = walkChildren(doc.parent, doc.role, 0, 1),
                               !.before = doc.role,
                               !.ran = TRUE]
    /\ UNCHANGED <<dom, options, hookQueue, flushing, modelValue, disabled, optValue, state,
                   activeElement, emitted, last>>

InitGroup ==
    /\ dom = <<>>
    /\ options = <<>>
    /\ hookQueue = <<>>
    /\ flushing = FALSE
    /\ modelValue = Undefined
    /\ disabled = FALSE
    /\ optValue = [i \in Ids |-> InitialValue(i)]
    /\ state = [i \in Ids |-> OptionState_Empty]
    /\ activeElement = OutsideContainer
    /\ emitted = <<>>
    /\ last = Step("init", 0, 0, FALSE)

Init == InitGroup /\ doc = MainDocument

Quiescent == hookQueue = <<>>

Mounted(i) == i \in Range(dom) /\ i \in Range(options)

\* ------------------------------------------------------- the Vue runtime
\* A patch renders a new RadioGroupOption (setup, then its element is put
\* into the container at some position) and queues its mounted hook.  The
\* instance takes the smallest id not in use, as ids come from a counter.
InsertOption(i, pos) ==
    /\ UNCHANGED doc
    /\ ~flushing
    /\ ~useRadioGroupContext("RadioGroupOption", GroupContext).threw
    /\ i \notin Range(dom) /\ i \notin Range(options)
    /\ \A j \in Ids : j < i => (j \in Range(dom) \/ j \in Range(options))
    /\ pos \in 1..(Len(dom) + 1)
    /\ dom' = InsertAt(dom, pos, i)
    /\ hookQueue' = Append(hookQueue, i)
    /\ optValue' = [optValue EXCEPT ![i] = InitialValue(i)]
    /\ state' = [state EXCEPT ![i] = OptionState_Empty]
    /\ emitted' = <<>>
    /\ last' = Step("patch", 0, 0, FALSE)
    /\ UNCHANGED <<options, flushing, modelValue, disabled, activeElement>>

\* A patch unmounts a mounted RadioGroupOption: its element leaves the
\* container (focus falls back to the document body when it held focus) and
\* its unmounted hook is queued.
RemoveOption(i) ==
    /\ UNCHANGED doc
    /\ ~flushing
    /\ Mounted(i)
    /\ dom' = RemoveAt(dom, IndexOf(dom, i))
    /\ hookQueue' = Append(hookQueue, i)
    /\ activeElement' = IF activeElement = i THEN OutsideContainer ELSE activeElement
    /\ optValue' = [optValue EXCEPT ![i] = InitialValue(i)]
    /\ state' = [state EXCEPT ![i] = OptionState_Empty]
    /\ emitted' = <<>>
    /\ last' = Step("patch", 0, 0, FALSE)
    /\ UNCHANGED <<options, flushing, modelValue, disabled>>

\* A patch sets up a RadioGroupOption that no RadioGroup encloses: setup
\* calls useRadioGroupContext first, which throws before a hook is
\* registered.  (Without the throw api is null, and api.registerOption in the
\* mounted hook is a TypeError.)
SetupOutsideGroup ==
    /\ UNCHANGED doc
    /\ ~flushing
    /\ LET context == useRadioGroupContext("RadioGroupOption", NoContext)
       IN  last' = IF context.threw
                   THEN Thrown("setup", context.message)
                   ELSE Thrown("setup", "TypeError: Cannot read property 'registerOption' of null")
    /\ emitted' = <<>>
    /\ UNCHANGED <<dom, options, hookQueue, flushing, modelValue, disabled, optValue, state,
                   activeElement>>

\* onMounted(() => api.registerOption({ id, element, propsRef }))
MountedHook ==
    /\ UNCHANGED doc
    /\ hookQueue # <<>>
    /\ Head(hookQueue) \in Range(dom)
    /\ registerOption(Head(hookQueue))
    /\ hookQueue' = Tail(hookQueue)
    /\ flushing' = (Tail(hookQueue) # <<>>)
    /\ emitted' = <<>>
    /\ last' = Step("mounted", 0, 0, FALSE)
    /\ UNCHANGED <<dom, modelValue, disabled, optValue, state, activeElement>>

\* onUnmounted(() => api.unregisterOption(id))
UnmountedHook ==
    /\ UNCHANGED doc
    /\ hookQueue # <<>>
    /\ Head(hookQueue) \notin Range(dom)
    /\ options' = unregisterOption(options, Head(hookQueue))
    /\ hookQueue' = Tail(hookQueue)
    /\ flushing' = (Tail(hookQueue) # <<>>)
    /\ emitted' = <<>>
    /\ last' = Step("unmounted", Head(hookQueue), 0, FALSE)
    /\ UNCHANGED <<dom, modelValue, disabled, optValue, state, activeElement>>

\* The options whose value is not the one they were created with.
UpdatedOptions(values) == {j \in Ids : values[j] # InitialValue(j)}

\* The parent passes a mounted option another value.
UpdateOptionValue(i, v) ==
    /\ UNCHANGED doc
    /\ Quiescent
    /\ Mounted(i)
    /\ Cardinality(UpdatedOptions([optValue EXCEPT ![i] = v])) <= MaxUpdatedOptions
    /\ v # optValue[i]
    /\ optValue' = [optValue EXCEPT ![i] = v]
    /\ emitted' = <<>>
    /\ last' = Step("props", 0, 0, FALSE)
    /\ UNCHANGED <<dom, options, hookQueue, flushing, modelValue, disabled, state, activeElement>>

\* The external source of truth binds another modelValue.
UpdateModelValue(v) ==
    /\ UNCHANGED doc
    /\ Quiescent
    /\ v # modelValue
    /\ modelValue' = v
    /\ emitted' = <<>>
    /\ last' = Step("props", 0, 0, FALSE)
    /\ UNCHANGED <<dom, options, hookQueue, flushing, disabled, optValue, state, activeElement>>

\* The external source of truth adopts the value just requested (v-model).
AdoptRequest ==
    /\ UNCHANGED doc
    /\ Quiescent
    /\ emitted # <<>>
    /\ modelValue' = emitted[1]
    /\ emitted' = <<>>
    /\ last' = Step("adopt", 0, 0, FALSE)
    /\ UNCHANGED <<dom, options, hookQueue, flushing, disabled, optValue, state, activeElement>>

\* The parent toggles the group's disabled prop.
UpdateDisabled ==
    /\ UNCHANGED doc
    /\ Quiescent
    /\ disabled' = ~disabled
    /\ emitted' = <<>>
    /\ last' = Step("props", 0, 0, FALSE)
    /\ UNCHANGED <<dom, options, hookQueue, flushing, modelValue, optValue, state, activeElement>>

\* ------------------------------------------------------------ user events
\* The user moves input focus (Tab, pointer) to an option element, to
\* another element inside the container, or out of the container.
FocusTargets == Range(dom) \cup {InsideContainer, OutsideContainer}

UserFocus(t) ==
    /\ UNCHANGED doc
    /\ Quiescent
    /\ t \in FocusTargets
    /\ t # activeElement
    /\ activeElement' = t
    /\ state' = FocusEvents(state, activeElement, t)
    /\ emitted' = <<>>
    /\ last' = Step("focus", 0, 0, FALSE)
    /\ UNCHANGED <<dom, options, hookQueue, flushing, modelValue, disabled, optValue>>

\* Variant of handleClick: returns at once when the group is disabled.
handleClick_SkipsDisabled(i) ==
    IF StrictEquals(modelValue, optValue[i]) \/ disabled
    THEN /\ emitted' = <<>>
         /\ last' = Step("click", i, activeElement, FALSE)
         /\ UNCHANGED <<state, activeElement>>
    ELSE /\ emitted' = change(optValue[i])
         /\ state' = FocusEvents([state EXCEPT ![i] = handleFocus(state[i])],
                                 activeElement, i)
         /\ activeElement' = i
         /\ last' = [Step("click", i, activeElement, FALSE)
                        EXCEPT !.order = <<"state.value |= Active", "api.change", "focus">>]

\* handleClick of option i.  order: the statements it ran, in the order it
\* ran them.
handleClick(i) ==
    IF StrictEquals(modelValue, optValue[i])
    THEN /\ emitted' = <<>>
         /\ last' = Step("click", i, activeElement, FALSE)
         /\ UNCHANGED <<state, activeElement>>
    ELSE /\ emitted' = change(optValue[i])
         /\ state' = FocusEvents([state EXCEPT ![i] = handleFocus(state[i])],
                                 activeElement, i)
         /\ activeElement' = i
         /\ last' = [Step("click", i, activeElement, FALSE)
                        EXCEPT !.order = <<"state.value |= Active", "api.change", "focus">>]

\* Variant of a click: the group keeps the value itself and writes the
\* requested value into it.
Click_WritesModel(i) ==
    /\ UNCHANGED doc
    /\ Quiescent
    /\ Mounted(i)
    /\ handleClick(i)
    /\ modelValue' = IF emitted' = <<>> THEN modelValue ELSE emitted'[1]
    /\ UNCHANGED <<dom, options, hookQueue, flushing, disabled, optValue>>

Click(i) ==
    /\ UNCHANGED doc
    /\ Quiescent
    /\ Mounted(i)
    /\ handleClick(i)
    /\ UNCHANGED <<dom, options, hookQueue, flushing, modelValue, disabled, optValue>>

\* The window keydown handler.  The event target is the focused element.
Focus_Previous == -1
Focus_Next == 1

\* Variant of the arrow key cases: focusIn without Focus.WrapAround.
ArrowKey_NoWrap(direction) ==
    LET found == focusIn(direction, FALSE)
        to == IF found = 0 THEN activeElement ELSE options[found]
    IN  /\ activeElement' = to
        /\ state' = FocusEvents(state, activeElement, to)
        /\ emitted' = IF found # 0 /\ to \in Range(options)
                      THEN change(optValue[to])
                      ELSE <<>>

\* Variant of the arrow key cases: the value the option had when it registered.
ArrowKey_RegisteredValue(direction) ==
    LET found == focusIn(direction, TRUE)
        to == IF found = 0 THEN activeElement ELSE options[found]
    IN  /\ activeElement' = to
        /\ state' = FocusEvents(state, activeElement, to)
        /\ emitted' = IF found # 0 /\ to \in Range(options)
                      THEN change(InitialValue(to))
                      ELSE <<>>

ArrowKey(direction) ==
    LET found == focusIn(direction, TRUE)
        to == IF found = 0 THEN activeElement ELSE options[found]
    IN  /\ activeElement' = to
        /\ state' = FocusEvents(state, activeElement, to)
        /\ emitted' = IF found # 0 /\ to \in Range(options)
                      THEN change(optValue[to])
                      ELSE <<>>

\* Variant of the Space case: the first registered option instead of the
\* option whose element is document.activeElement.
SpaceKey_FirstOption ==
    /\ emitted' = IF options # <<>> THEN change(optValue[options[1]]) ELSE <<>>
    /\ UNCHANGED <<activeElement, state>>

SpaceKey ==
    /\ emitted' = IF activeElement \in Range(options)
                  THEN change(optValue[activeElement])
                  ELSE <<>>
    /\ UNCHANGED <<activeElement, state>>

\* event.key: the keys of the switch, and one key it has no case for.
Keys == {"ArrowLeft", "ArrowUp", "ArrowRight", "ArrowDown", " ", "Enter"}

\* The case of the switch a key falls into.
KeyCase(key) ==
    CASE key \in {"ArrowLeft", "ArrowUp"} -> "Previous"
      [] key \in {"ArrowRight", "ArrowDown"} -> "Next"
      [] key = " " -> "Space"
      [] OTHER -> "Other"

\* Variant of the keydown handler: no test that the container contains the
\* event target.
KeyDown_AnyTarget(key) ==
    /\ UNCHANGED doc
    /\ Quiescent
    /\ IF KeyCase(key) = "Other"
       THEN /\ emitted' = <<>>
            /\ last' = Step(KeyCase(key), 0, activeElement, FALSE)
            /\ UNCHANGED <<activeElement, state>>
       ELSE /\ CASE KeyCase(key) = "Previous" -> ArrowKey(Focus_Previous)
                 [] KeyCase(key) = "Next" -> ArrowKey(Focus_Next)
                 [] OTHER -> SpaceKey
            /\ last' = Step(KeyCase(key), 0, activeElement, TRUE)
    /\ UNCHANGED <<dom, options, hookQueue, flushing, modelValue, disabled, optValue>>

\* Variant of the keydown handler: it sorts the options list by document
\* position before it uses it.
KeyDown_SortsOptions(key) ==
    /\ UNCHANGED doc
    /\ Quiescent
    /\ IF activeElement = OutsideContainer \/ KeyCase(key) = "Other"
       THEN /\ emitted' = <<>>
            /\ last' = Step(KeyCase(key), 0, activeElement, FALSE)
            /\ UNCHANGED <<activeElement, state, options>>
       ELSE /\ CASE KeyCase(key) = "Previous" -> ArrowKey(Focus_Previous)
                 [] KeyCase(key) = "Next" -> ArrowKey(Focus_Next)
                 [] OTHER -> SpaceKey
            /\ options' = IF Range(options) \subseteq DOMAIN orderMap
                          THEN SortByOrderMap(options)
                          ELSE options
            /\ last' = Step(KeyCase(key), 0, activeElement, TRUE)
    /\ UNCHANGED <<dom, hookQueue, flushing, modelValue, disabled, optValue>>

KeyDown(key) ==
    /\ UNCHANGED doc
    /\ Quiescent
    /\ IF activeElement = OutsideContainer \/ KeyCase(key) = "Other"
       THEN /\ emitted' = <<>>
            /\ last' = Step(KeyCase(key), 0, activeElement, FALSE)
            /\ UNCHANGED <<activeElement, state>>
       ELSE /\ CASE KeyCase(key) = "Previous" -> ArrowKey(Focus_Previous)
                 [] KeyCase(key) = "Next" -> ArrowKey(Focus_Next)
                 [] OTHER -> SpaceKey
            /\ last' = Step(KeyCase(key), 0, activeElement, TRUE)
    /\ UNCHANGED <<dom, options, hookQueue, flushing, modelValue, disabled, optValue>>

\* -------------------------------------------------------------------- Next
Next ==
    \/ \E i \in Ids, pos \in 1..NumOptions : InsertOption(i, pos)
    \/ \E i \in Ids : RemoveOption(i)
    \/ SetupOutsideGroup
    \/ MountedHook
    \/ UnmountedHook
    \/ \E i \in Ids, v \in Values : UpdateOptionValue(i, v)
    \/ \E v \in Values : UpdateModelValue(v)
    \/ AdoptRequest
    \/ UpdateDisabled
    \/ \E t \in Ids \cup {InsideContainer, OutsideContainer} : UserFocus(t)
    \/ \E i \in Ids : Click(i)
    \/ \E key \in Keys : KeyDown(key)
    \/ RoleNormalizer

Spec == Init /\ [][Next]_vars

\* The role normalizer alone, on every document of the bounds.
InitRoles == InitGroup /\ doc \in Documents
NextRoles == RoleNormalizer
SpecRoles == InitRoles /\ [][NextRoles]_vars

\* ================================================================== claims
ArrowKinds == {"Previous", "Next"}

\* The rendered tab stops of the registered options.
TabStops == {i \in Range(options) : tabIndex(i) = 0}

\* C1: after each registerOption returns, the options list is ordered by the
\* options' current document position in the container, whatever the order
\* of the mounted and unmounted hooks.
C1_RegisterOrdersByDocument ==
    last.kind = "mounted" =>
        \A j, k \in DOMAIN options :
            (j < k /\ options[j] \in Range(dom) /\ options[k] \in Range(dom))
                => orderMap[options[j]] < orderMap[options[k]]

\* C2: with its options registered, exactly one option of the group has
\* tabIndex 0: the first option of the list when no value is selected, else
\* the checked option; every other option has tabIndex -1.
C2_ExactlyOneTabStop ==
    (Quiescent /\ options # <<>>) =>
        /\ Cardinality(TabStops) = 1
        /\ \A i \in TabStops :
              IF modelValue = Undefined THEN firstRadio(i) ELSE checked(i)

\* C3: while the group is disabled no 'update:modelValue' request is emitted:
\* change(v) emits nothing for every v, and no click, arrow key or Space
\* press leaves a request behind.
C3_DisabledNeverEmits ==
    disabled => (emitted = <<>> /\ \A v \in Values : change(v) = <<>>)

\* C3 witness: an unchecked option of a disabled group was clicked (the click
\* went on to focus it) and nothing was emitted.
C3_Witness ==
    /\ disabled
    /\ last.kind = "click"
    /\ ~checked(last.target)
    /\ activeElement = last.target
    /\ last.from # last.target
    /\ emitted = <<>>

\* C4: change(v) emits nothing when v === the current modelValue, and no
\* emitted request carries a value === the modelValue bound when it was
\* emitted.
C4_EqualValueNeverEmits ==
    /\ \A v \in Values : (v = modelValue) => change(v) = <<>>
    /\ emitted # <<>> => emitted[1] # modelValue

\* C4 witness: Space was pressed on the checked option of an enabled group and
\* nothing was emitted.
C4_Witness ==
    /\ ~disabled
    /\ last.kind = "Space"
    /\ last.prevented
    /\ activeElement \in Range(options)
    /\ optValue[activeElement] = modelValue
    /\ emitted = <<>>

\* C5: an arrow key pressed while a registered option holds focus moves focus
\* to the adjacent option of the list in the key's direction; Previous from
\* the first option goes to the last, Next from the last goes to the first.
C5_ArrowKeysWrapAround ==
    (last.kind \in ArrowKinds /\ last.from \in Range(options)) =>
        LET n == Len(options)
            at == IndexOf(options, last.from)
        IN  activeElement =
                IF last.kind = "Previous"
                THEN (IF at = 1 THEN options[n] ELSE options[at - 1])
                ELSE (IF at = n THEN options[1] ELSE options[at + 1])

\* C5 witness: with three options, Previous was pressed on the first option
\* and focus is on the last one.
C5_Witness ==
    /\ Len(options) = 3
    /\ last.kind = "Previous"
    /\ last.from = options[1]
    /\ activeElement = options[3]

\* C6: after an arrow key moved focus, the request emitted (if any) is the
\* one change makes for the current value of the option that now holds focus:
\* none when the group is disabled or that value is the modelValue, else
\* exactly one carrying that value; once the external source adopts a
\* request, the option holding focus is checked.
C6_ArrowKeyRequestsFocusedValue ==
    /\ (last.kind \in ArrowKinds /\ last.prevented /\ options # <<>>) =>
          /\ activeElement \in Range(options)
          /\ emitted = IF disabled \/ optValue[activeElement] = modelValue
                       THEN <<>>
                       ELSE <<optValue[activeElement]>>
    /\ last.kind = "adopt" => (activeElement \in Range(options) /\ checked(activeElement))

\* C6 witness: options [A, B, C], nothing selected, Next pressed on A: focus
\* is on B and the one request carries the value B was given after it
\* registered.
C6_Witness ==
    /\ Len(options) = 3
    /\ modelValue = Undefined
    /\ last.kind = "Next"
    /\ last.from = options[1]
    /\ activeElement = options[2]
    /\ optValue[activeElement] # InitialValue(activeElement)
    /\ emitted = <<optValue[activeElement]>>

\* C7: after an option unmounted, no key press moves focus to it and no
\* request carries a value on its behalf: the option a key leaves focused,
\* and the option whose value a request carries, is a mounted one.
C7_UnmountedOptionSkipped ==
    (last.kind \in ArrowKinds \cup {"Space"}) =>
        /\ activeElement \in Ids => Mounted(activeElement)
        /\ emitted # <<>> =>
              (Mounted(activeElement) /\ emitted[1] = optValue[activeElement])

\* C7 witness: of the options 1, 2, 3 the option 2 has unmounted; Next pressed
\* on 1 moved focus to 3.
C7_Witness ==
    /\ dom = <<1, 3>>
    /\ options = <<1, 3>>
    /\ last.kind = "Next"
    /\ last.from = 1
    /\ activeElement = 3

\* C8: unregisterOption(id) with an id that is not in the list leaves the list
\* as it is; with a registered id it removes that entry alone and keeps the
\* order of the others; a second call with the same id changes nothing.
C8_UnregisterIdempotent ==
    \A id \in Ids \cup {NumOptions + 1} :
        LET once == unregisterOption(options, id)
        IN  /\ id \notin Range(options) => once = options
            /\ once = SelectSeq(options, LAMBDA x : x # id)
            /\ unregisterOption(once, id) = once

\* C8 witness: an unmounted hook has run, its id is gone and other options
\* are still registered.
C8_Witness ==
    /\ last.kind = "unmounted"
    /\ last.target \notin Range(options)
    /\ Len(options) >= 2

\* C9 (as claimed): an option is checked exactly when the modelValue and its
\* value have equal content, also when they are distinct objects.
C9_CheckedByContent ==
    \A i \in Range(options) :
        Mounted(i) => (checked(i) <=> SameContent(modelValue, optValue[i]))

\* C9 (amended): an option is checked exactly when modelValue === its value
\* (objects by reference); a click on an option whose value is not === the
\* modelValue requests that value unless the group is disabled, also when the
\* two are objects with the same content; a click on an option whose value
\* === the modelValue requests nothing.
C9_CheckedByIdentity ==
    /\ \A i \in Range(options) :
          Mounted(i) => (checked(i) <=> modelValue = optValue[i])
    /\ last.kind = "click" =>
          emitted = IF disabled \/ optValue[last.target] = modelValue
                    THEN <<>>
                    ELSE <<optValue[last.target]>>

\* C9 witness: the modelValue and the clicked option's value are two objects
\* with the same content; the option was not checked and the click requested
\* its value.
C9_Witness ==
    /\ last.kind = "click"
    /\ modelValue.kind = "object"
    /\ SameContent(modelValue, optValue[last.target])
    /\ ~checked(last.target)
    /\ emitted = <<optValue[last.target]>>

\* C10 (as claimed): an option whose value is absent is unchecked for every
\* modelValue, and an absent modelValue leaves every option unchecked.
C10_AbsentNeverChecked ==
    \A i \in Range(options) :
        (Mounted(i) /\ (optValue[i] = Undefined \/ modelValue = Undefined))
            => ~checked(i)

\* C10 (amended): the comparison with an absent value is false unless both
\* sides are absent: an option without a value is unchecked for every
\* selected value and checked (a tab stop) when no value is selected; an
\* absent modelValue leaves every option that has a value unchecked.
C10_AbsentCheckedOnlyWhenBothAbsent ==
    \A i \in Range(options) :
        (Mounted(i) /\ (optValue[i] = Undefined \/ modelValue = Undefined))
            => /\ checked(i) <=> (optValue[i] = Undefined /\ modelValue = Undefined)
               /\ checked(i) => tabIndex(i) = 0

\* C10 witness: nothing is selected and a registered option has no value; it
\* is checked.
C10_Witness ==
    /\ Quiescent
    /\ modelValue = Undefined
    /\ \E i \in Range(options) : optValue[i] = Undefined /\ checked(i)

\* C11: setting up an option that no group encloses fails at once with an
\* error whose message names RadioGroupOption, before any registration: the
\* container, the options list and the hook queue of the group are as before.
C11_MissingContextFailsFast ==
    [][SetupOutsideGroup =>
          /\ last'.error = "<RadioGroupOption /> is missing a parent <RadioGroup /> component."
          /\ UNCHANGED <<dom, options, hookQueue>>]_vars

\* C11 witness: the setup of an option outside any group has thrown the error
\* naming RadioGroupOption, next to a group with registered options.
C11_Witness ==
    /\ last.kind = "setup"
    /\ last.error = "<RadioGroupOption /> is missing a parent <RadioGroup /> component."
    /\ Len(options) >= 2

\* The steps that run handleClick or the keydown handler.
HandlerKinds == {"click", "Previous", "Next", "Space", "Other"}

\* C12: selectedValue (props.modelValue) changes only in a step of the
\* external source of truth; a click or a key press, and so every call of
\* change, emits at most one request and leaves selectedValue and the options
\* list as they were.
C12_SelectedValueOnlyFromSource ==
    [][/\ modelValue' # modelValue =>
             (\E v \in Values : UpdateModelValue(v)) \/ AdoptRequest
       /\ Len(emitted') <= 1
       /\ last'.kind \in HandlerKinds => UNCHANGED <<modelValue, options>>]_vars

\* C12 witness: a click or a key press has emitted a request for a value and
\* selectedValue is still another value.
C12_Witness ==
    /\ last.kind \in HandlerKinds
    /\ Len(emitted) = 1
    /\ ~StrictEquals(modelValue, emitted[1])
    /\ modelValue # Undefined

\* C13: after a Space key pressed with focus inside the container, focus is
\* where it was; what was emitted is what change does with the current value
\* of the registered option holding focus, and nothing when the focused
\* element is not the element of a registered option.
C13_SpaceRequestsFocusedValue ==
    (last.kind = "Space" /\ last.prevented) =>
        /\ activeElement = last.from
        /\ emitted = IF last.from \in Range(options)
                     THEN change(optValue[last.from])
                     ELSE <<>>

\* C13 witness: Space on a focused registered option, not the first of the
\* list, has emitted the value the option has now, which is not the value it
\* registered with.
C13_Witness ==
    /\ last.kind = "Space" /\ last.prevented
    /\ Len(options) >= 2
    /\ activeElement \in Range(options) /\ activeElement # options[1]
    /\ optValue[activeElement] # InitialValue(activeElement)
    /\ emitted = <<optValue[activeElement]>>

\* ancestors of element n below the container
RECURSIVE Ancestors(_, _)
Ancestors(parent, n) ==
    IF parent[n] = 0 THEN {} ELSE {parent[n]} \cup Ancestors(parent, parent[n])

Normalized == doc.ran /\ doc.container

\* C14 as stated: after the normalizer has run, an element that declared a
\* role has the role it had, and so has every element below it.
C14_RoleSubtreeUntouched ==
    Normalized =>
        \A n \in Nodes :
            hasAttribute(doc.before[n]) =>
                /\ doc.role[n] = doc.before[n]
                /\ \A d \in Nodes :
                       n \in Ancestors(doc.parent, d) => doc.role[d] = doc.before[d]

\* C14 amended: after the normalizer has run, an element that declared a role
\* has the role it had; below an element with role 'radio' every element has
\* the role it had; below an element with another role the walk goes on: an
\* element without role whose ancestors all carry a role other than 'radio',
\* or had none, has role 'none'.
C14_RoleKeptSubtreeWalked ==
    Normalized =>
        \A n \in Nodes :
            /\ hasAttribute(doc.before[n]) => doc.role[n] = doc.before[n]
            /\ doc.before[n] = "radio" =>
                   \A d \in Nodes :
                       n \in Ancestors(doc.parent, d) => doc.role[d] = doc.before[d]
            /\ (/\ hasAttribute(doc.before[n]) /\ doc.before[n] # "radio"
                /\ \A a \in Ancestors(doc.parent, n) : doc.before[a] # "radio") =>
                   \A d \in Nodes :
                       (doc.parent[d] = n /\ ~hasAttribute(doc.before[d])) =>
                           doc.role[d] = "none"

\* C14 witness: the normalizer has run on a document where an element without
\* role lies below an element with role 'group' and another below an element
\* with role 'radio'; the first has role 'none', the second still has none.
C14_Witness ==
    /\ Normalized
    /\ \E n, d \in Nodes :
          /\ doc.before[n] = "group" /\ doc.parent[n] = 0
          /\ doc.parent[d] = n /\ doc.before[d] = NoRole /\ doc.role[d] = "none"
    /\ \E n, d \in Nodes :
          /\ doc.before[n] = "radio"
          /\ doc.parent[d] = n /\ doc.before[d] = NoRole /\ doc.role[d] = NoRole

\* C15 as stated: after the normalizer has run, every element that had no
\* role has role 'none' and every option element has role 'radio'.
C15_AllRolelessNeutral ==
    Normalized =>
        \A n \in Nodes :
            /\ ~hasAttribute(doc.before[n]) => doc.role[n] = "none"
            /\ doc.before[n] = "radio" => doc.role[n] = "radio"

\* C15 amended: after the normalizer has run, an element that had no role has
\* role 'none' if no element above it has role 'radio', and is still without
\* role if one has; every option element has role 'radio'.
C15_RolelessOutsideOptionsNeutral ==
    Normalized =>
        \A n \in Nodes :
            /\ ~hasAttribute(doc.before[n]) =>
                   doc.role[n] = IF \E a \in Ancestors(doc.parent, n) : doc.before[a] = "radio"
                                 THEN NoRole
                                 ELSE "none"
            /\ doc.before[n] = "radio" => doc.role[n] = "radio"

\* C15 witness: the normalizer has run on a document where an element without
\* role held an option element that held an element without role: the outer
\* one has role 'none', the option element role 'radio', the inner one none.
C15_Witness ==
    /\ Normalized
    /\ \E w, o, d \in Nodes :
          /\ doc.parent[o] = w /\ doc.parent[d] = o
          /\ doc.before[w] = NoRole /\ doc.role[w] = "none"
          /\ doc.before[o] = "radio" /\ doc.role[o] = "radio"
          /\ doc.before[d] = NoRole /\ doc.role[d] = NoRole

\* C16: a click on an option whose value is selectedValue changes no local
\* state, leaves focus where it is and emits nothing; a click on any other
\* option, the group disabled or not, sets the option Active, then calls
\* change with its value, then focuses it.
C16_ClickNoOpOrActiveChangeFocus ==
    [][(last'.kind = "click" /\ Click(last'.target)) =>
          IF StrictEquals(modelValue, optValue[last'.target])
          THEN /\ UNCHANGED <<state, activeElement>>
               /\ emitted' = <<>>
               /\ last'.order = <<>>
          ELSE /\ IsActive(state'[last'.target])
               /\ emitted' = change(optValue[last'.target])
               /\ activeElement' = last'.target
               /\ last'.order = <<"state.value |= Active", "api.change", "focus">>]_vars

\* C16 witness: in a disabled group a click on an option that is not the
\* selected one, with focus on another option, has made it Active and focused
\* and has emitted nothing.
C16_Witness ==
    /\ last.kind = "click"
    /\ disabled
    /\ ~StrictEquals(modelValue, optValue[last.target])
    /\ last.from \in Ids /\ last.from # last.target
    /\ activeElement = last.target
    /\ IsActive(state[last.target])
    /\ emitted = <<>>
    /\ last.order = <<"state.value |= Active", "api.change", "focus">>

\* The keys the keydown handler has a case for.
HandledKeys == {"ArrowLeft", "ArrowUp", "ArrowRight", "ArrowDown", " "}

\* C17: a keydown whose target is outside the container, or whose key is
\* none of the arrow keys and Space, changes neither focus nor the options
\* list nor any option's local state, emits nothing, and does not call
\* preventDefault or stopPropagation.
C17_UnhandledKeyDownNoTransition ==
    [][\A key \in Keys :
          (/\ last'.kind \in HandlerKinds
           /\ activeElement = OutsideContainer \/ key \notin HandledKeys
           /\ KeyDown(key)) =>
              /\ UNCHANGED <<activeElement, options, state>>
              /\ emitted' = <<>>
              /\ ~last'.prevented]_vars

\* C17 witness: an arrow key or Space was pressed with focus outside the
\* container of a group with registered options: focus is still outside,
\* nothing was emitted and the event was not suppressed.
C17_Witness ==
    /\ last.kind \in {"Previous", "Next", "Space"}
    /\ last.from = OutsideContainer
    /\ activeElement = OutsideContainer
    /\ ~last.prevented
    /\ Len(options) >= 2
    /\ emitted = <<>>

\* C18: a step that changes the options list is the mounted hook of an
\* option, which adds that option's id and no other, or the unmounted hook of
\* an option, which takes that option's id away and leaves the rest in order;
\* clicks, key presses, focus moves and the role normalizer leave the list as
\* it is.
C18_OptionsChangedOnlyByHooks ==
    [][options' # options =>
          \/ /\ MountedHook
             /\ Range(options') = Range(options) \cup {Head(hookQueue)}
          \/ /\ UnmountedHook
             /\ options' = unregisterOption(options, Head(hookQueue))
             /\ Range(options') = Range(options) \ {Head(hookQueue)}]_vars

\* C18 witness: a key press handled inside the container, and the role
\* normalizer, have run on a group whose options list is not in document
\* order, and the list is still in that order.
C18_Witness ==
    /\ last.kind \in {"Previous", "Next", "Space"} /\ last.prevented
    /\ doc.ran
    /\ Len(options) >= 2
    /\ Range(options) = Range(dom)
    /\ options # dom

\* The options whose mounted hook has run and whose unmounted hook has not:
\* those in the container with no hook queued, and those taken out of it with
\* the unmounted hook still queued.
HooksCompleted == (Range(dom) \ Range(hookQueue)) \cup (Range(hookQueue) \ Range(dom))

\* C19: after each hook the options list holds, each once, the ids of the
\* options whose mounted hook has run and whose unmounted hook has not; when
\* no hook is left to run these are the options in the container, all of them
\* and no other.
C19_OptionsAreMountedOptions ==
    /\ Range(options) = HooksCompleted
    /\ \A j, k \in DOMAIN options : options[j] = options[k] => j = k
    /\ Quiescent => Range(options) = Range(dom)

\* C19 witness: after mounts and an unmount, the unmounted hook being the
\* last to complete, the list holds the two mounted options, in an order
\* that is not the document's.
C19_Witness ==
    /\ Quiescent
    /\ last.kind = "unmounted"
    /\ Len(dom) = 2
    /\ Range(options) = Range(dom)
    /\ options # dom

\* C20: after every handler, an option whose local state is Active is the
\* element holding input focus, so at most one option is Active, whichever
\* option is checked.
C20_ActiveOnlyWithFocus ==
    /\ \A i \in Ids : IsActive(state[i]) => activeElement = i
    /\ Cardinality({i \in Ids : IsActive(state[i])}) <= 1

\* C20 witness: an arrow key has moved focus from one option to another; the
\* option that lost focus is Active no more, the option that gained it is
\* Active and not checked, and a third party, the option still checked, is
\* not Active.
C20_Witness ==
    /\ last.kind \in {"Previous", "Next"} /\ last.prevented
    /\ last.from \in Ids /\ last.from # activeElement
    /\ activeElement \in Ids
    /\ IsActive(state[activeElement]) /\ ~checked(activeElement)
    /\ ~IsActive(state[last.from])
    /\ \E j \in Ids : Mounted(j) /\ checked(j) /\ ~IsActive(state[j])

====
